---- MODULE Spec2Model ----
(***************************************************************************)
(* Closetly virtual try-on: composeTryOnImage, its remote generation       *)
(* adapter generateAITryOn and the canvas fallback, as a state machine.    *)
(* One composeTryOnImage call is followed from its entry to its settling;  *)
(* the steps are the segments of the async function between its awaits.    *)
(* A garment is identified by its position in the input list (its url and  *)
(* file are those of that position); an image is identified by the         *)
(* position of the garment it was loaded from.                             *)
(*                                                                         *)
(* Specifications: Spec (one composeTryOnImage call), SpecLive (the same   *)
(* call under fairness), SpecPlacement (estimateGarmentPlacement and the   *)
(* placement tables), SpecPixel (the background stripper on one pixel),    *)
(* SpecUI and SpecUILive (the FashionTryOn component and its upload        *)
(* widget).                                                                *)
(***************************************************************************)
EXTENDS Integers, Sequences, FiniteSets, TLC

\* ------------------------------------------------------------------ bounds
MaxGarments == 6        \* longest garment list tried (above the remote cap)
MaxStart == 1           \* category patterns tried: the list starts at Types[1 + s]

\* ------------------------------------------------------- program constants
MaxRemoteGarments == 5  \* generateAITryOn: garments.slice(0, 5)
RetryGarments == 2      \* generateAITryOn: garments.slice(0, 2)
ModelWidth == 400       \* createStandardModelImage: canvas.width
ModelHeight == 600      \* createStandardModelImage: canvas.height

VARIABLES
    garments,        \* params.garments: the category string of each garment
    gender,          \* params.gender
    apiKey,          \* import.meta.env.VITE_GOOGLE_AI_API_KEY is set
    pc,              \* position of the call
    aiGarments,      \* generateAITryOn's (capped) garments: input positions
    requests,        \* generateContent requests sent to the external service
    inflight,        \* requests sent and not yet settled
    aiLog,           \* outcome of each adapter attempt, in order
    aiResult,        \* what generateAITryOn returned: "unset", "image", "null"
    host2D,          \* the host still hands out 2D contexts
    canvasesCreated, \* document.createElement("canvas") calls so far
    modelImg,        \* <<width, height>> of the procedural model image, or <<>>
    figure,          \* the drawing steps of the procedural model, or <<>>
    loads,           \* loadImage calls settled so far: [idx, ok]
    garmentImages,   \* the garmentImages array: source garment of each image
    canvas,          \* <<width, height>> of the output canvas, or <<>>
    outCtx,          \* <<state>> of the output canvas's 2D context, or <<>>
    i,               \* loop index of the load loop, then of the draw loop
    draws,           \* garment draws on the output canvas, in order
    result,          \* "pending", "ai", "canvas", "error"
    error,           \* message of the Error the call rejected with
    placement,       \* a placement lookup or estimate: its input and result
    pixel,           \* a pixel of a garment's offscreen buffer, and its history
    ui               \* the FashionTryOn component and its upload widget, or <<>>

vars == <<garments, gender, apiKey, pc, aiGarments, requests, inflight, aiLog,
          aiResult, host2D, canvasesCreated, modelImg, figure, loads,
          garmentImages, canvas, outCtx, i, draws, result, error, placement,
          pixel, ui>>

aiVars == <<aiGarments, requests, inflight, aiLog, aiResult>>
fallbackVars == <<host2D, canvasesCreated, modelImg, figure, loads,
                  garmentImages, canvas, outCtx, i, draws>>

\* The state of one composeTryOnImage call.
composeVars == <<garments, gender, apiKey, pc, aiGarments, requests, inflight,
                 aiLog, aiResult, host2D, canvasesCreated, modelImg, figure,
                 loads, garmentImages, canvas, outCtx, i, draws, result, error>>

\* The state of the specifications of the pure functions.
pureVars == <<placement, pixel, ui>>

\* ------------------------------------------------------------- categories
Types == <<"dress", "tshirt", "top", "pants", "shorts", "footwear",
           "accessory", "hat">>

GarmentList(n, s) == [k \in 1..n |-> Types[((s + k - 1) % Len(Types)) + 1]]

NoGarmentsError == "Failed to load any garment images"
CanvasError == "Canvas not supported"

\* A placement box, its fractions in thousandths.
Box(x, y, w, h) == [x |-> x, y |-> y, width |-> w, height |-> h, rotationDeg |-> 0]

\* Mutant: the accessory box is a tenth of the canvas each way.
getDefaultBoxSmallAccessory(garmentType) ==
    CASE garmentType = "dress" -> Box(225, 80, 550, 820)
      [] garmentType \in {"tshirt", "top"} -> Box(250, 180, 500, 400)
      [] garmentType = "pants" -> Box(250, 350, 500, 450)
      [] garmentType = "shorts" -> Box(250, 350, 500, 250)
      [] garmentType = "footwear" -> Box(350, 780, 300, 180)
      [] garmentType = "accessory" -> Box(400, 100, 100, 100)
      [] OTHER -> Box(250, 200, 500, 500)

\* getDefaultBox: the table of placement boxes by garment type.
getDefaultBox(garmentType) ==
    CASE garmentType = "dress" -> Box(225, 80, 550, 820)
      [] garmentType \in {"tshirt", "top"} -> Box(250, 180, 500, 400)
      [] garmentType = "pants" -> Box(250, 350, 500, 450)
      [] garmentType = "shorts" -> Box(250, 350, 500, 250)
      [] garmentType = "footwear" -> Box(350, 780, 300, 180)
      [] garmentType = "accessory" -> Box(400, 100, 200, 200)
      [] OTHER -> Box(250, 200, 500, 500)

\* Mutant: the switch gives shorts the height of pants.
ComposeBoxLongShorts(garmentType) ==
    CASE garmentType = "dress" -> Box(225, 80, 550, 820)
      [] garmentType \in {"tshirt", "top"} -> Box(250, 180, 500, 400)
      [] garmentType = "pants" -> Box(250, 350, 500, 450)
      [] garmentType = "shorts" -> Box(250, 350, 500, 450)
      [] garmentType = "footwear" -> Box(350, 780, 300, 180)
      [] garmentType = "accessory" -> Box(400, 100, 200, 200)
      [] OTHER -> Box(250, 200, 500, 500)

\* The switch of composeTryOnImage's draw loop.
ComposeBox(garmentType) ==
    CASE garmentType = "dress" -> Box(225, 80, 550, 820)
      [] garmentType \in {"tshirt", "top"} -> Box(250, 180, 500, 400)
      [] garmentType = "pants" -> Box(250, 350, 500, 450)
      [] garmentType = "shorts" -> Box(250, 350, 500, 250)
      [] garmentType = "footwear" -> Box(350, 780, 300, 180)
      [] garmentType = "accessory" -> Box(400, 100, 200, 200)
      [] OTHER -> Box(250, 200, 500, 500)

\* targetX, targetY, targetW, targetH of a box on a canvas of size cw x ch.
TargetRect(box, cw, ch) ==
    [x |-> (cw * box.x) \div 1000, y |-> (ch * box.y) \div 1000,
     w |-> (cw * box.width) \div 1000, h |-> (ch * box.height) \div 1000]

Prefix(n) == [k \in 1..n |-> k]

Min(a, b) == IF a < b THEN a ELSE b

\* ------------------------------------------------- remote generation adapter
ImageModel == "gemini-2.0-flash-preview-image-generation"
TextModel == "gemini-1.5-flash"

\* Mutant: the cap is forgotten and every garment is sent.
CapGarmentsUncapped(n) == Prefix(n)

\* generateAITryOn's defensive cap: garments.slice(0, 5) when more are given.
CapGarments(n) ==
    IF n > MaxRemoteGarments THEN Prefix(MaxRemoteGarments) ELSE Prefix(n)

\* limitedGarments of the retry: garments.slice(0, 2).
LimitedGarments(gs) == SubSeq(gs, 1, Min(RetryGarments, Len(gs)))

Request(model, attempt, gs) == [model |-> model, attempt |-> attempt, garments |-> gs]

\* Mutant: the retry guard is off by one (garments.length >= 2).
AfterFirstRetriesPair(outcome, n) ==
    CASE outcome = "image" -> "return"
      [] outcome = "noimage" -> "ai_text"
      [] OTHER -> IF n >= RetryGarments THEN "ai_retry" ELSE "ai_text"

\* Where generateAITryOn goes after its first attempt: an image is returned,
\* a response without an image falls through to the text model, an exception
\* (thrown by the request, or by fileToBase64 before it) enters the catch
\* block, which retries only when more than 2 garments were given.
AfterFirst(outcome, n) ==
    CASE outcome = "image" -> "return"
      [] outcome = "noimage" -> "ai_text"
      [] OTHER -> IF n > RetryGarments THEN "ai_retry" ELSE "ai_text"

\* Where it goes after the retry: its own catch absorbs an exception.
AfterRetry(outcome) ==
    IF outcome = "image" THEN "return" ELSE "ai_text"

\* Mutant: a failed text request is sent again.
AfterTextResends(outcome) ==
    IF outcome = "threw" THEN "ai_text" ELSE "return_null"

\* Where it goes after the text model's request: null on both paths.
AfterText(outcome) == "return_null"

\* Mutant: the adapter's image is dropped and the fallback runs anyway.
ComposeIgnoresImage(res) == "fallback"

\* Mutant: a null result of the adapter is treated as fatal.
ComposeRejectsOnNull(res) ==
    CASE res = "image" -> "return"
      [] OTHER -> "reject"

\* composeTryOnImage around its await of generateAITryOn: a truthy result is
\* returned, null continues, and its catch turns an exception into the same.
ComposeAfterAdapter(res) ==
    CASE res = "image" -> "return"
      [] res = "null" -> "fallback"
      [] OTHER -> "fallback"

\* generateAITryOn settles with res and composeTryOnImage resumes.
AdapterSettles(res) ==
    /\ aiResult' = res
    /\ LET next == ComposeAfterAdapter(res) IN
       /\ pc' = IF next = "fallback" THEN "model" ELSE "done"
       /\ result' = CASE next = "return" -> "ai"
                      [] next = "fallback" -> result
                      [] OTHER -> "error"
       /\ error' = IF next \in {"return", "fallback"} THEN error ELSE "AI generation failed"

\* generateAITryOn moves on to the position named next.
AdapterGoes(next) ==
    CASE next = "return" -> AdapterSettles("image")
      [] next = "return_null" -> AdapterSettles("null")
      [] OTHER -> /\ pc' = next
                  /\ UNCHANGED <<aiResult, result, error>>

Genders == {"male", "female", "any"}

Init ==
    /\ \E n \in 0..MaxGarments, s \in 0..MaxStart : garments = GarmentList(n, s)
    /\ gender \in Genders
    /\ apiKey \in BOOLEAN
    /\ pc = "start"
    /\ aiGarments = <<>>
    /\ requests = <<>>
    /\ inflight = 0
    /\ aiLog = <<>>
    /\ aiResult = "unset"
    /\ host2D = TRUE
    /\ canvasesCreated = 0
    /\ modelImg = <<>>
    /\ figure = <<>>
    /\ loads = <<>>
    /\ garmentImages = <<>>
    /\ canvas = <<>>
    /\ outCtx = <<>>
    /\ i = 0
    /\ draws = <<>>
    /\ result = "pending"
    /\ error = "none"
    /\ placement = <<>>
    /\ pixel = <<>>
    /\ ui = <<>>

\* composeTryOnImage up to its first await: the adapter is entered (and caps
\* its list) when a key is configured and the list is not empty.
ComposeStart ==
    /\ pc = "start"
    /\ IF apiKey /\ Len(garments) > 0
       THEN /\ pc' = "ai_first"
            /\ aiGarments' = CapGarments(Len(garments))
       ELSE /\ pc' = "model"
            /\ aiGarments' = aiGarments
    /\ UNCHANGED pureVars
    /\ UNCHANGED <<garments, gender, apiKey, requests, inflight, aiLog, aiResult,
                   result, error>>
    /\ UNCHANGED fallbackVars

\* Where generateAITryOn goes after the attempt named attempt ended with
\* outcome.
AfterAttempt(attempt, outcome) ==
    CASE attempt = "first" -> AfterFirst(outcome, Len(aiGarments))
      [] attempt = "retry" -> AfterRetry(outcome)
      [] OTHER -> AfterText(outcome)

\* Mutant: the first request is not awaited and the retry starts at once.
AwaitPositionFireAndForget(at) ==
    IF at = "ai_first" THEN "ai_retry" ELSE at \o "_wait"

\* The position at which an attempt awaits the generateContent call it made.
AwaitPosition(at) == at \o "_wait"

\* An adapter attempt up to its generateContent call: the garment files are
\* encoded (fileToBase64 may reject, which the attempt's catch receives) and
\* the request is sent.
AttemptSend(at, model, attempt, gs) ==
    /\ pc = at
    /\ \E encoded \in BOOLEAN :
         IF encoded
         THEN /\ requests' = Append(requests, Request(model, attempt, gs))
              /\ inflight' = inflight + 1
              /\ pc' = AwaitPosition(at)
              /\ UNCHANGED <<aiLog, aiResult, result, error>>
         ELSE /\ aiLog' = Append(aiLog, [attempt |-> attempt, outcome |-> "encfail"])
              /\ AdapterGoes(AfterAttempt(attempt, "encfail"))
              /\ UNCHANGED <<requests, inflight>>
    /\ UNCHANGED pureVars
    /\ UNCHANGED <<garments, gender, apiKey, aiGarments>>
    /\ UNCHANGED fallbackVars

AIFirstSend == AttemptSend("ai_first", ImageModel, "first", aiGarments)

AIRetrySend ==
    AttemptSend("ai_retry", ImageModel, "retry", LimitedGarments(aiGarments))

AITextSend == AttemptSend("ai_text", TextModel, "text", aiGarments)

\* The request of an attempt settles: with an image part, without one, or
\* with an exception (transport, quota, 503).
AttemptSettle(at, attempt, outcomes) ==
    /\ pc = at
    /\ \E outcome \in outcomes :
         /\ aiLog' = Append(aiLog, [attempt |-> attempt, outcome |-> outcome])
         /\ AdapterGoes(AfterAttempt(attempt, outcome))
    /\ inflight' = inflight - 1
    /\ UNCHANGED pureVars
    /\ UNCHANGED <<garments, gender, apiKey, aiGarments, requests>>
    /\ UNCHANGED fallbackVars

AIFirstSettle ==
    AttemptSettle("ai_first_wait", "first", {"image", "noimage", "threw"})

AIRetrySettle ==
    AttemptSettle("ai_retry_wait", "retry", {"image", "noimage", "threw"})

\* The text model answers with text only, or the request throws.
AITextSettle == AttemptSettle("ai_text_wait", "text", {"text", "threw"})

\* ---------------------------------------------------------- canvas fallback
\* What canvas.getContext("2d") can answer: a context, or null once the host
\* has stopped handing them out.
ContextOutcomes == IF host2D THEN BOOLEAN ELSE {FALSE}

\* Mutant: the remote cap is applied to the fallback too.
FallbackGarmentsCapped ==
    SubSeq(garments, 1, Min(MaxRemoteGarments, Len(garments)))

\* The list the load loop and the draw loop run over: params.garments.
FallbackGarments == garments

\* Mutant: any failed load is fatal.
NoUsableGarmentsStrict(images, gs) == Len(images) < Len(gs)

\* composeTryOnImage's test after the load loop: garmentImages.length === 0.
NoUsableGarments(images, gs) == Len(images) = 0

\* Mutant: the images are taken from the end of the array.
ImageForSlotReversed(images, k) == images[Len(images) - k + 1]

\* The image the draw loop takes for slot k: garmentImages[k].
ImageForSlot(images, k) == images[k]

\* The draw loop's skip test for slot k: k >= garmentImages.length (0-based).
SlotSkipped(images, k) == k > Len(images)

\* Mutant: the canvas of the male model is made wider.
ModelSizeByGender(g) ==
    IF g = "male" THEN <<ModelWidth + 20, ModelHeight>>
    ELSE <<ModelWidth, ModelHeight>>

\* createStandardModelImage's canvas.width and canvas.height, which the image
\* it resolves with has: the same for every gender.
ModelSize(g) == <<ModelWidth, ModelHeight>>

\* The shadow drawGarmentWithBgRemoval sets for its drawImage.
GarmentShadow ==
    [shadowColor |-> "rgba(0, 0, 0, 0.15)", shadowBlur |-> 5,
     shadowOffsetX |-> 2, shadowOffsetY |-> 3]

\* The shadow it resets to, which is also a new context's.
NoShadow ==
    [shadowColor |-> "transparent", shadowBlur |-> 0,
     shadowOffsetX |-> 0, shadowOffsetY |-> 0]

\* A new 2D context: no shadow, globalAlpha 1 (in hundredths).
NewContext == [shadow |-> NoShadow, globalAlpha |-> 100]

\* Mutant: the early return forgets its globalAlpha.
ContextAtDrawImageOpaque(c, octx) ==
    IF octx THEN [c EXCEPT !.shadow = GarmentShadow, !.globalAlpha = 98]
    ELSE c

\* The context state in which drawGarmentWithBgRemoval calls drawImage:
\* with the stripped buffer, shadow set and globalAlpha 0.98; without an
\* offscreen context, the image itself at globalAlpha 0.95.
ContextAtDrawImage(c, octx) ==
    IF octx THEN [c EXCEPT !.shadow = GarmentShadow, !.globalAlpha = 98]
    ELSE [c EXCEPT !.globalAlpha = 95]

\* Mutant: the shadow is not reset after the drawImage.
ContextAfterDrawLeaks(c, octx) == ContextAtDrawImage(c, octx)

\* The context state drawGarmentWithBgRemoval returns with: the shadow is
\* reset after the drawImage; the early return resets nothing.
ContextAfterDraw(c, octx) ==
    IF octx THEN [ContextAtDrawImage(c, octx) EXCEPT !.shadow = NoShadow]
    ELSE ContextAtDrawImage(c, octx)

\* The context state after the draw loop's turn for a box: a rotated draw
\* is bracketed by ctx.save() and ctx.restore().
ContextAfterGarment(c, box, octx) ==
    IF box.rotationDeg # 0 THEN c ELSE ContextAfterDraw(c, octx)

\* The call rejects with the Error of message msg.
Fails(msg) ==
    /\ pc' = "done"
    /\ result' = "error"
    /\ error' = msg

\* ---- the procedural figure (createStandardModelImage, lines 641-781)
\* A drawing step: the part it draws, the path it fills and the fill style.
\* Abscissae are absolute (canvas.width / 2 is 200); rotations are in
\* thousandths of a radian.
Centre == ModelWidth \div 2

SkinTone == "#f4a261"
FeatureFill == "rgba(0, 0, 0, 0.1)"

HairColor(g) == IF g = "male" THEN "#1a202c" ELSE "#2d3748"

Ellipse(part, fill, cx, cy, rx, ry, rot) ==
    [part |-> part, shape |-> "ellipse", fill |-> fill,
     path |-> <<cx, cy, rx, ry, rot>>]

Polygon(part, fill, x1, y1, x2, y2, x3, y3, x4, y4) ==
    [part |-> part, shape |-> "polygon", fill |-> fill,
     path |-> <<x1, y1, x2, y2, x3, y3, x4, y4>>]

FillRect(part, fill, x, y, w, h) ==
    [part |-> part, shape |-> "rect", fill |-> fill, path |-> <<x, y, w, h>>]

HeadShape(g) ==
    IF g = "male" THEN Ellipse("head", SkinTone, Centre, 80, 32, 38, 0)
    ELSE IF g = "female" THEN Ellipse("head", SkinTone, Centre, 80, 30, 40, 0)
    ELSE Ellipse("head", SkinTone, Centre, 80, 31, 39, 0)

HairShape(g) ==
    IF g = "male" THEN Ellipse("hair", HairColor(g), Centre, 70, 32, 20, 0)
    ELSE IF g = "female" THEN Ellipse("hair", HairColor(g), Centre, 65, 35, 28, 0)
    ELSE Ellipse("hair", HairColor(g), Centre, 67, 33, 24, 0)

ShouldersShape(g) ==
    IF g = "male"
    THEN Polygon("shoulders", SkinTone, Centre - 55, 145, Centre - 42, 170,
                 Centre + 42, 170, Centre + 55, 145)
    ELSE IF g = "female"
    THEN Polygon("shoulders", SkinTone, Centre - 48, 145, Centre - 38, 170,
                 Centre + 38, 170, Centre + 48, 145)
    ELSE Polygon("shoulders", SkinTone, Centre - 50, 145, Centre - 40, 170,
                 Centre + 40, 170, Centre + 50, 145)

TorsoShape(g) ==
    IF g = "male"
    THEN Polygon("torso", SkinTone, Centre - 42, 170, Centre - 38, 330,
                 Centre + 38, 330, Centre + 42, 170)
    ELSE IF g = "female"
    THEN Polygon("torso", SkinTone, Centre - 40, 170, Centre - 32, 330,
                 Centre + 32, 330, Centre + 40, 170)
    ELSE Polygon("torso", SkinTone, Centre - 40, 170, Centre - 35, 330,
                 Centre + 35, 330, Centre + 40, 170)

\* Mutant: the male figure has longer legs.
LegShapesByGender(g) ==
    <<Ellipse("legs", SkinTone, Centre - 20, 450, 20,
              IF g = "male" THEN 140 ELSE 130, 0),
      Ellipse("legs", SkinTone, Centre + 20, 450, 20,
              IF g = "male" THEN 140 ELSE 130, 0)>>

LegShapes(g) ==
    <<Ellipse("legs", SkinTone, Centre - 20, 450, 20, 130, 0),
      Ellipse("legs", SkinTone, Centre + 20, 450, 20, 130, 0)>>

\* The steps in the order of the code; fillStyle stays the skin tone from
\* the neck on.
ModelFigure(g) ==
    <<HeadShape(g), HairShape(g),
      Ellipse("face", FeatureFill, Centre - 12, 75, 3, 2, 0),
      Ellipse("face", FeatureFill, Centre + 12, 75, 3, 2, 0),
      Ellipse("face", FeatureFill, Centre, 85, 2, 3, 0),
      Ellipse("face", FeatureFill, Centre, 95, 4, 2, 0),
      FillRect("neck", SkinTone, Centre - 12, 115, 24, 30),
      ShouldersShape(g), TorsoShape(g),
      Ellipse("arms", SkinTone, Centre - 60, 220, 18, 100, -150),
      Ellipse("arms", SkinTone, Centre + 60, 220, 18, 100, 150),
      Ellipse("hands", SkinTone, Centre - 60, 320, 10, 15, -150),
      Ellipse("hands", SkinTone, Centre + 60, 320, 10, 15, 150)>>
    \o LegShapes(g) \o
    <<Ellipse("feet", SkinTone, Centre - 20, 580, 15, 10, 0),
      Ellipse("feet", SkinTone, Centre + 20, 580, 15, 10, 0)>>

\* createStandardModelImage up to img.src = canvas.toDataURL(): a 400x600
\* canvas is created and the figure is drawn on it; without a 2D context the
\* executor throws and the call rejects.
RenderModel ==
    /\ pc = "model"
    /\ canvasesCreated' = canvasesCreated + 1
    /\ \E ctx \in ContextOutcomes :
         /\ host2D' = ctx
         /\ IF ctx
            THEN /\ figure' = ModelFigure(gender)
                 /\ pc' = "model_decode"
                 /\ UNCHANGED <<result, error>>
            ELSE /\ Fails(CanvasError)
                 /\ UNCHANGED figure
    /\ UNCHANGED pureVars
    /\ UNCHANGED <<garments, gender, apiKey, modelImg, loads, garmentImages,
                   canvas, outCtx, i, draws>>
    /\ UNCHANGED aiVars

\* img.onload: the promise of createStandardModelImage resolves with the
\* image and composeTryOnImage goes on to the load loop.
ModelDecoded ==
    /\ pc = "model_decode"
    /\ modelImg' = ModelSize(gender)
    /\ pc' = "load"
    /\ i' = 1
    /\ UNCHANGED pureVars
    /\ UNCHANGED <<garments, gender, apiKey, host2D, canvasesCreated, figure,
                   loads, garmentImages, canvas, outCtx, draws, result, error>>
    /\ UNCHANGED aiVars

\* The image reports an error instead: no onerror handler is installed
\* (lines 789-791), so the promise is neither resolved nor rejected and the
\* await at line 440 never returns.
ModelDecodeFails ==
    /\ pc = "model_decode"
    /\ pc' = "model_unsettled"
    /\ UNCHANGED pureVars
    /\ UNCHANGED <<garments, gender, apiKey, result, error>>
    /\ UNCHANGED fallbackVars
    /\ UNCHANGED aiVars

\* One turn of the load loop: loadImage(garment.url) resolves and the image
\* is pushed, or it rejects and the garment is skipped.
LoadGarment ==
    /\ pc = "load"
    /\ i <= Len(FallbackGarments)
    /\ \E ok \in BOOLEAN :
         /\ loads' = Append(loads, [idx |-> i, ok |-> ok])
         /\ garmentImages' = IF ok THEN Append(garmentImages, i) ELSE garmentImages
    /\ i' = i + 1
    /\ UNCHANGED pureVars
    /\ UNCHANGED <<garments, gender, apiKey, pc, host2D, canvasesCreated, modelImg, figure,
                   canvas, outCtx, draws, result, error>>
    /\ UNCHANGED aiVars

\* After the load loop: the call rejects when no image was loaded; otherwise
\* the output canvas is created at the model image's size, its context is
\* taken (the call rejects without one) and the model is drawn on it.
SetupCanvas ==
    /\ pc = "load"
    /\ i > Len(FallbackGarments)
    /\ IF NoUsableGarments(garmentImages, FallbackGarments)
       THEN /\ Fails(NoGarmentsError)
            /\ UNCHANGED <<host2D, canvasesCreated, canvas, outCtx, i>>
       ELSE /\ canvasesCreated' = canvasesCreated + 1
            /\ \E ctx \in ContextOutcomes :
                 /\ host2D' = ctx
                 /\ IF ctx
                    THEN /\ canvas' = modelImg
                         /\ outCtx' = <<NewContext>>
                         /\ pc' = "draw"
                         /\ i' = 1
                         /\ UNCHANGED <<result, error>>
                    ELSE /\ Fails(CanvasError)
                         /\ UNCHANGED <<canvas, outCtx, i>>
    /\ UNCHANGED pureVars
    /\ UNCHANGED <<garments, gender, apiKey, modelImg, figure, loads, garmentImages, draws>>
    /\ UNCHANGED aiVars

\* One turn of the draw loop that draws: the image of the slot is drawn,
\* through drawGarmentWithBgRemoval, in the box of the slot's garment type.
\* Without a context for the offscreen canvas the image is drawn unstripped.
DrawGarment ==
    /\ pc = "draw"
    /\ i <= Len(FallbackGarments)
    /\ ~SlotSkipped(garmentImages, i)
    /\ canvasesCreated' = canvasesCreated + 1
    /\ \E octx \in ContextOutcomes :
         /\ host2D' = octx
         /\ LET box == ComposeBox(FallbackGarments[i]) IN
            /\ draws' = Append(draws,
                  [slot |-> i,
                   img |-> ImageForSlot(garmentImages, i),
                   box |-> box,
                   rect |-> TargetRect(box, canvas[1], canvas[2]),
                   stripped |-> octx,
                   before |-> outCtx[1],
                   during |-> ContextAtDrawImage(outCtx[1], octx)])
            /\ outCtx' = <<ContextAfterGarment(outCtx[1], box, octx)>>
    /\ i' = i + 1
    /\ UNCHANGED pureVars
    /\ UNCHANGED <<garments, gender, apiKey, pc, modelImg, figure, loads, garmentImages, canvas,
                   result, error>>
    /\ UNCHANGED aiVars

\* One turn of the draw loop that skips its slot.
SkipGarment ==
    /\ pc = "draw"
    /\ i <= Len(FallbackGarments)
    /\ SlotSkipped(garmentImages, i)
    /\ i' = i + 1
    /\ UNCHANGED pureVars
    /\ UNCHANGED <<garments, gender, apiKey, pc, host2D, canvasesCreated, modelImg, figure,
                   loads, garmentImages, canvas, outCtx, draws, result, error>>
    /\ UNCHANGED aiVars

\* After the draw loop: canvas.toDataURL("image/png") is returned.
ReturnComposed ==
    /\ pc = "draw"
    /\ i > Len(FallbackGarments)
    /\ pc' = "done"
    /\ result' = "canvas"
    /\ UNCHANGED pureVars
    /\ UNCHANGED <<garments, gender, apiKey, error>>
    /\ UNCHANGED fallbackVars
    /\ UNCHANGED aiVars

Next ==
    \/ ComposeStart
    \/ AIFirstSend
    \/ AIFirstSettle
    \/ AIRetrySend
    \/ AIRetrySettle
    \/ AITextSend
    \/ AITextSettle
    \/ RenderModel
    \/ ModelDecoded
    \/ ModelDecodeFails
    \/ LoadGarment
    \/ SetupCanvas
    \/ DrawGarment
    \/ SkipGarment
    \/ ReturnComposed

Spec == Init /\ [][Next]_vars

\* The same call when every step that can be taken eventually is: the code
\* that follows an await runs once the awaited promise settles, and every
\* request, load and decode the call has started eventually reports. Lists
\* are kept short here; MaxLiveGarments is above RetryGarments so that the
\* adapter's retry is among the behaviours.
MaxLiveGarments == 3

LiveInit == Init /\ Len(garments) <= MaxLiveGarments

SpecLive == LiveInit /\ [][Next]_vars /\ WF_vars(Next)


\* ------------------------------------------------------- placement functions
\* One call of estimateGarmentPlacement, and lookups of the two placement
\* tables, for one garment type: the specification SpecPlacement.
\* A JSON value's property is a number (in thousandths), another JSON value
\* (a string), or missing.
Num(v) == [t |-> "num", v |-> v]
NotANumber == [t |-> "str", v |-> 0]
Missing == [t |-> "missing", v |-> 0]

PositionValues == {Missing, NotANumber, Num(-250), Num(0), Num(1000), Num(1250)}
SizeValues ==
    {Missing, NotANumber, Num(-250), Num(0), Num(20), Num(100), Num(141),
     Num(142), Num(200), Num(1000), Num(1250)}
RotationValues == {Missing, Num(15000)}

\* The response texts tried: a JSON object with these properties, the JSON
\* null, a JSON scalar, or text that is not JSON; bare or inside a code fence.
ResponseTexts ==
    [fenced : BOOLEAN, kind : {"object"}, x : PositionValues, y : PositionValues,
     width : SizeValues, height : SizeValues, rotationDeg : RotationValues]
    \cup
    [fenced : BOOLEAN, kind : {"null", "scalar", "garbage"}, x : {Missing},
     y : {Missing}, width : {Missing}, height : {Missing},
     rotationDeg : {Missing}]

NoText ==
    [fenced |-> FALSE, kind |-> "none", x |-> Missing, y |-> Missing,
     width |-> Missing, height |-> Missing, rotationDeg |-> Missing]

NoBox == [x |-> 0, y |-> 0, width |-> 0, height |-> 0, rotationDeg |-> 0]

\* stripCodeFences: the inside of a ``` fence when there is one.
stripCodeFences(text) ==
    IF text.fenced THEN [text EXCEPT !.fenced = FALSE] ELSE text

\* JSON.parse throws on a code fence and on text that is not JSON.
JSONParseThrows(text) == text.fenced \/ text.kind = "garbage"

\* json.x throws a TypeError when json is null; a scalar has no properties.
PropertyThrows(json) == json.kind = "null"
Property(json, f) == IF json.kind = "object" THEN json[f] ELSE Missing

clamp01(v) ==
    IF v.t # "num" THEN 0
    ELSE IF v.v < 0 THEN 0 ELSE IF v.v > 1000 THEN 1000 ELSE v.v

\* Mutant: the area test is dropped.
isValidBoxAnyArea(box) ==
    /\ box.x >= 0 /\ box.x <= 1000
    /\ box.y >= 0 /\ box.y <= 1000
    /\ box.width > 0 /\ box.width <= 1000
    /\ box.height > 0 /\ box.height <= 1000

\* isValidBox: within the unit square, and of area at least 0.02 (in
\* millionths).
isValidBox(box) ==
    LET within ==
            /\ box.x >= 0 /\ box.x <= 1000
            /\ box.y >= 0 /\ box.y <= 1000
            /\ box.width > 0 /\ box.width <= 1000
            /\ box.height > 0 /\ box.height <= 1000
        area == box.width * box.height
    IN  within /\ area >= 20000

\* The box estimateGarmentPlacement builds from the parsed JSON.
ParsedBox(json) ==
    [x |-> clamp01(Property(json, "x")),
     y |-> clamp01(Property(json, "y")),
     width |-> clamp01(Property(json, "width")),
     height |-> clamp01(Property(json, "height")),
     rotationDeg |-> IF Property(json, "rotationDeg").t = "num"
                     THEN Property(json, "rotationDeg").v ELSE 0]

\* estimateGarmentPlacement from result.response.text() on: the try block
\* and its catch.
EstimatedBox(text, garmentType) ==
    LET jsonText == stripCodeFences(text) IN
    IF JSONParseThrows(jsonText) \/ PropertyThrows(jsonText)
    THEN getDefaultBox(garmentType)
    ELSE IF ~isValidBox(ParsedBox(jsonText))
         THEN getDefaultBox(garmentType)
         ELSE ParsedBox(jsonText)

MaxLookups == 2         \* lookups of the tables for one garment type

\* The compose variables of the specifications that run no composition.
ComposeIdle ==
    /\ garments = <<>>
    /\ gender = "female"
    /\ apiKey = FALSE
    /\ pc = "idle"
    /\ aiGarments = <<>>
    /\ requests = <<>>
    /\ inflight = 0
    /\ aiLog = <<>>
    /\ aiResult = "unset"
    /\ host2D = TRUE
    /\ canvasesCreated = 0
    /\ modelImg = <<>>
    /\ figure = <<>>
    /\ loads = <<>>
    /\ garmentImages = <<>>
    /\ canvas = <<>>
    /\ outCtx = <<>>
    /\ i = 0
    /\ draws = <<>>
    /\ result = "pending"
    /\ error = "none"

PlacementInit ==
    /\ ComposeIdle
    /\ pixel = <<>>
    /\ ui = <<>>
    /\ \E t \in {Types[k] : k \in DOMAIN Types}, key \in BOOLEAN :
         placement = [garmentType |-> t, key |-> key, stage |-> "start",
                      text |-> NoText, box |-> NoBox, lookups |-> <<>>]

\* estimateGarmentPlacement up to result.response.text(): it throws without
\* an API key, and the request (or the file's encoding) can throw, outside
\* the try block; otherwise the response text is at hand.
EstimateRequest ==
    /\ placement.stage = "start"
    /\ placement.lookups = <<>>
    /\ IF ~placement.key
       THEN placement' = [placement EXCEPT !.stage = "rejected"]
       ELSE \/ placement' = [placement EXCEPT !.stage = "rejected"]
            \/ \E text \in ResponseTexts :
                 placement' = [placement EXCEPT !.stage = "text", !.text = text]
    /\ UNCHANGED <<pixel, ui>>
    /\ UNCHANGED composeVars

\* estimateGarmentPlacement from the response text to its return.
EstimateReturn ==
    /\ placement.stage = "text"
    /\ placement' = [placement EXCEPT
                       !.stage = "returned",
                       !.box = EstimatedBox(placement.text, placement.garmentType)]
    /\ UNCHANGED <<pixel, ui>>
    /\ UNCHANGED composeVars

\* A lookup of the garment type in getDefaultBox and in the switch of
\* composeTryOnImage's draw loop.
LookupBox ==
    /\ placement.stage = "start"
    /\ Len(placement.lookups) < MaxLookups
    /\ placement' = [placement EXCEPT
                       !.lookups = Append(@,
                           [default |-> getDefaultBox(placement.garmentType),
                            compose |-> ComposeBox(placement.garmentType)])]
    /\ UNCHANGED <<pixel, ui>>
    /\ UNCHANGED composeVars

PlacementNext ==
    \/ EstimateRequest
    \/ EstimateReturn
    \/ LookupBox

SpecPlacement == PlacementInit /\ [][PlacementNext]_vars

\* ------------------------------------------------------- background stripper
\* The loop body of drawGarmentWithBgRemoval on one pixel of the offscreen
\* buffer: the specification SpecPixel. Channels are 0..255; the products
\* with 0.299, 0.587, 0.114 and 0.99 are taken in thousandths and
\* hundredths, which agrees with the double arithmetic on every pixel.
PixelWindow == 1        \* channel values tried around each threshold
MaxStrips == 3          \* times the stripper is applied to a pixel

Around(v) == {c \in (v - PixelWindow)..(v + PixelWindow) : c >= 0 /\ c <= 255}

ChannelValues == {0, 128, 255} \cup Around(210) \cup Around(230) \cup Around(245)

AlphaValues == {0, 1, 50, 128, 255}

Max3(a, b, c) ==
    IF a >= b /\ a >= c THEN a ELSE IF b >= c THEN b ELSE c

Min3(a, b, c) ==
    IF a <= b /\ a <= c THEN a ELSE IF b <= c THEN b ELSE c

\* brightness, in thousandths.
Brightness(px) == 299 * px.r + 587 * px.g + 114 * px.b

\* contrast = maxRGB - minRGB.
Contrast(px) == Max3(px.r, px.g, px.b) - Min3(px.r, px.g, px.b)

\* saturation < 0.15, with saturation = contrast / (maxRGB + 0.001).
SaturationBelow15(px) ==
    100000 * Contrast(px) < 15000 * Max3(px.r, px.g, px.b) + 15

\* Mutant: a kept pixel is made opaque.
KeptAlphaOpaque(a) == 255

\* Mutant: the alpha is scaled by 0.9.
KeptAlphaNinety(a) ==
    IF (90 * a + 50) \div 100 < 255 THEN (90 * a + 50) \div 100 ELSE 255

\* Math.min(255, Math.round(a * 0.99)).
KeptAlpha(a) ==
    IF (99 * a + 50) \div 100 < 255 THEN (99 * a + 50) \div 100 ELSE 255

\* Mutant: the first test admits a contrast of 25.
StripPixelWideContrast(px) ==
    IF Brightness(px) > 230000 /\ Contrast(px) <= 25
    THEN [px EXCEPT !.a = 0]
    ELSE IF Brightness(px) > 210000 /\ Contrast(px) < 20 /\ SaturationBelow15(px)
    THEN [px EXCEPT !.a = 0]
    ELSE IF px.r > 245 /\ px.g > 245 /\ px.b > 245
    THEN [px EXCEPT !.a = 0]
    ELSE [px EXCEPT !.a = KeptAlpha(px.a)]

\* The if / else-if chain of the loop: only data[i + 3] is written.
StripPixel(px) ==
    IF Brightness(px) > 230000 /\ Contrast(px) < 25
    THEN [px EXCEPT !.a = 0]
    ELSE IF Brightness(px) > 210000 /\ Contrast(px) < 20 /\ SaturationBelow15(px)
    THEN [px EXCEPT !.a = 0]
    ELSE IF px.r > 245 /\ px.g > 245 /\ px.b > 245
    THEN [px EXCEPT !.a = 0]
    ELSE [px EXCEPT !.a = KeptAlpha(px.a)]

PixelInit ==
    /\ ComposeIdle
    /\ placement = <<>>
    /\ ui = <<>>
    /\ \E r \in ChannelValues, g \in ChannelValues, b \in ChannelValues,
          a \in AlphaValues :
         LET px == [r |-> r, g |-> g, b |-> b, a |-> a] IN
         pixel = [now |-> px, prev |-> px, orig |-> px, strips |-> 0]

\* The stripper runs over the pixel (again, when the buffer it is in was
\* drawn from an image that had been stripped).
StripOnce ==
    /\ pixel.strips < MaxStrips
    /\ pixel' = [pixel EXCEPT !.now = StripPixel(pixel.now),
                              !.prev = pixel.now,
                              !.strips = @ + 1]
    /\ UNCHANGED <<placement, ui>>
    /\ UNCHANGED composeVars

PixelNext == StripOnce

SpecPixel == PixelInit /\ [][PixelNext]_vars

\* ------------------------------------------------------ garment collection
\* The FashionTryOn component with its FileUpload widget: the specification
\* SpecUI. A File is its MIME type (a sequence of characters) and its size;
\* an object URL is identified by what it was created for and by the number
\* of the upload that created it. A composed image is identified by the
\* garment list composeTryOnImage was called with. The gender selector is
\* left out: no handler below reads selectedGender except to pass it on.
MaxUploads == 2         \* files accepted over the life of the component
MaxGenerates == 2       \* handleAIProcess runs that reach composeTryOnImage

MaxFileSize == 10 * 1024 * 1024

Chars(a, b, c, d, e) == <<a, b, c, d, e>>

ImagePrefix == Chars("i", "m", "a", "g", "e") \o <<"/">>

MimeTypes ==
    {ImagePrefix \o <<"p", "n", "g">>,
     Chars("i", "m", "a", "g", "e"),
     Chars("t", "e", "x", "t", "/") \o ImagePrefix,
     <<>>}

FileSizes == {MaxFileSize, MaxFileSize + 1}

Files == [mime : MimeTypes, size : FileSizes]

\* 'tshirt' | 'footwear' | 'accessory' | 'dress' | 'pants' | 'shorts'; the
\* types offered here are two of them.
GarmentTypes == {"tshirt", "dress"}

\* String.prototype.startsWith.
startsWith(str, prefix) ==
    /\ Len(str) >= Len(prefix)
    /\ SubSeq(str, 1, Len(prefix)) = prefix

\* Mutant: only the size is checked.
FileAcceptedAnyType(file) == file.size <= MaxFileSize

\* The two checks of handleFileSelect.
FileAccepted(file) ==
    /\ startsWith(file.mime, ImagePrefix)
    /\ ~(file.size > MaxFileSize)

NotImageNotice == "Please upload an image file"
TooLargeNotice == "File size must be less than 10MB"
UploadedNotice == "Garment uploaded successfully!"
NoActiveNotice == "Please add at least one garment to try on"
ToggledOffNotice == "removed from try-on"
ToggledOnNotice == "added to try-on"
RemovedNotice == "removed from collection"
CreatingNotice == "This may take a few moments."
GeneratedNotice == "generated"
FailedNotice == "Processing failed"

\* URL.createObjectURL(file) in handleGarmentUpload and in handleFileSelect.
GarmentUrl(n) == <<"blob", "garment", n>>
PreviewUrl(n) == <<"blob", "preview", n>>

\* The garment handleGarmentUpload builds for upload number n.
NewGarment(gs, n, file, type) ==
    [id |-> n,
     name |-> <<type, Cardinality({k \in DOMAIN gs : gs[k].type = type}) + 1>>,
     type |-> type,
     imageUrl |-> GarmentUrl(n),
     file |-> file,
     isActive |-> TRUE]

\* Mutant: the toggled garment is rebuilt with a fresh name.
ToggledRenamed(gs, id) ==
    [k \in DOMAIN gs |->
        IF gs[k].id = id
        THEN [gs[k] EXCEPT !.isActive = ~@, !.name = <<gs[k].type, 0>>]
        ELSE gs[k]]

\* prev.map(...) of handleGarmentToggle.
Toggled(gs, id) ==
    [k \in DOMAIN gs |->
        IF gs[k].id = id THEN [gs[k] EXCEPT !.isActive = ~@] ELSE gs[k]]

\* prev.filter(g => g.id !== id) of handleGarmentRemove.
Removed(gs, id) == SelectSeq(gs, LAMBDA g : g.id # id)

\* garments.filter(g => g.isActive).
ActiveGarments(gs) == SelectSeq(gs, LAMBDA g : g.isActive)

\* Mutant: every garment of the collection is sent.
ComposeArgsAll(gs) ==
    [k \in DOMAIN gs |->
        [url |-> gs[k].imageUrl, type |-> gs[k].type, file |-> gs[k].file]]

\* The garments argument of composeTryOnImage built by handleAIProcess.
ComposeArgs(gs) ==
    LET active == ActiveGarments(gs) IN
    [k \in DOMAIN active |->
        [url |-> active[k].imageUrl, type |-> active[k].type,
         file |-> active[k].file]]

\* The cleanup of the effect registered for the garments array gs: the effect
\* depends on [garments], so React runs this cleanup when the component
\* unmounts and also before it re-runs the effect for a new array.
EffectCleanup(gs) == {gs[k].imageUrl : k \in DOMAIN gs}

\* What the collection's state looks like once the component has rendered
\* the array next in place of u.garments.
GarmentsChanged(u, next) ==
    [u EXCEPT !.garments = next,
              !.revoked = @ \cup EffectCleanup(u.garments)]

\* Mutant: the button is never disabled.
GenerateEnabledAlways(u) == TRUE

\* The Generate button: disabled={isProcessing}.
GenerateEnabled(u) == ~u.isProcessing

\* The handler that ran last and what it was given (kept for the properties
\* that speak of one handler's effect).
Event(op, id, file) == [op |-> op, id |-> id, file |-> file]

UIInit ==
    /\ ComposeIdle
    /\ placement = <<>>
    /\ pixel = <<>>
    /\ ui = [mounted |-> TRUE,
             garments |-> <<>>,
             uploads |-> 0,
             revoked |-> {},
             selectedGarmentType |-> "none",
             selectedFile |-> <<>>,
             previewUrl |-> <<>>,
             isProcessing |-> FALSE,
             aiImage |-> <<>>,
             runs |-> <<>>,
             generates |-> 0,
             notice |-> "none",
             last |-> Event("mount", 0, <<>>)]

UIStep(next) ==
    /\ ui' = next
    /\ UNCHANGED <<placement, pixel>>
    /\ UNCHANGED composeVars

\* GarmentTypeSelector: onTypeSelected(type), which mounts the FileUpload
\* widget.
handleGarmentTypeSelection ==
    /\ ui.mounted
    /\ ui.uploads < MaxUploads
    /\ \E type \in GarmentTypes :
         UIStep([ui EXCEPT !.selectedGarmentType = type,
                           !.last = Event("type", 0, <<>>)])

\* handleGarmentUpload(file, type), called by the widget with the selected
\* type: the garment is appended, the result is cleared and the selected
\* type is reset, which unmounts the widget.
Uploaded(u, file) ==
    LET n == u.uploads + 1
        garment == NewGarment(u.garments, n, file, u.selectedGarmentType)
    IN  [GarmentsChanged(u, Append(u.garments, garment))
            EXCEPT !.uploads = n,
                   !.aiImage = <<>>,
                   !.selectedGarmentType = "none"]

\* FileUpload.handleFileSelect(file). A rejected file leaves a notice. An
\* accepted one is kept by the widget with a preview URL of its own and
\* handed to onFileUpload; the widget is unmounted by what that does, so its
\* state is discarded, and nothing revokes the preview URL it created.
handleFileSelect ==
    /\ ui.mounted
    /\ ui.selectedGarmentType # "none"
    /\ \E file \in Files :
         IF FileAccepted(file)
         THEN /\ ui.uploads < MaxUploads
              /\ UIStep([Uploaded(ui, file)
                            EXCEPT !.selectedFile = <<>>,
                                   !.previewUrl = <<>>,
                                   !.notice = UploadedNotice,
                                   !.last = Event("file", ui.uploads + 1, <<file>>)])
         ELSE UIStep([ui EXCEPT !.notice = IF ~startsWith(file.mime, ImagePrefix)
                                           THEN NotImageNotice
                                           ELSE TooLargeNotice,
                                !.last = Event("file", 0, <<file>>)])

handleGarmentToggle ==
    /\ ui.mounted
    /\ \E k \in DOMAIN ui.garments :
         LET g == ui.garments[k]
             after == GarmentsChanged(ui, Toggled(ui.garments, g.id))
         IN  UIStep([after EXCEPT !.aiImage = <<>>,
                                  !.notice = IF g.isActive THEN ToggledOffNotice
                                             ELSE ToggledOnNotice,
                                  !.last = Event("toggle", g.id, <<>>)])

handleGarmentRemove ==
    /\ ui.mounted
    /\ \E k \in DOMAIN ui.garments :
         LET g == ui.garments[k]
             after == GarmentsChanged(ui, Removed(ui.garments, g.id))
         IN  UIStep([after EXCEPT !.revoked = @ \cup {g.imageUrl},
                                  !.aiImage = <<>>,
                                  !.notice = RemovedNotice,
                                  !.last = Event("remove", g.id, <<>>)])

\* A handleAIProcess run that passed its checks: the garments array of its
\* closure, the argument it builds from it, and how far it has got.
Run(gs) == [from |-> gs, args |-> ComposeArgs(gs), stage |-> "delay"]

\* handleAIProcess up to its first await. The checks for missing data and
\* for expired URLs (lines 989-1015) never reject: every garment has a file
\* and a URL, and constructing an Image does not throw.
handleAIProcess ==
    /\ ui.mounted
    /\ GenerateEnabled(ui)
    /\ IF Len(ActiveGarments(ui.garments)) = 0
       THEN UIStep([ui EXCEPT !.notice = NoActiveNotice,
                              !.last = Event("generate", 0, <<>>)])
       ELSE /\ ui.generates < MaxGenerates
            /\ UIStep([ui EXCEPT !.isProcessing = TRUE,
                                 !.aiImage = <<>>,
                                 !.runs = Append(@, Run(ui.garments)),
                                 !.generates = @ + 1,
                                 !.notice = CreatingNotice,
                                 !.last = Event("generate", 0, <<>>)])

\* The 100 ms timer of a run fires and composeTryOnImage is called.
CallCompose ==
    \E k \in DOMAIN ui.runs :
        /\ ui.runs[k].stage = "delay"
        /\ UIStep([ui EXCEPT !.runs[k].stage = "composing",
                             !.last = Event("compose", 0, <<>>)])

WithoutRun(runs, k) == SubSeq(runs, 1, k - 1) \o SubSeq(runs, k + 1, Len(runs))

\* What the rest of handleAIProcess does once composeTryOnImage has returned
\* an image or thrown: setAiImage for an image, a notice, and
\* setIsProcessing(false) in the finally block. On an unmounted component
\* the state setters do nothing.
AfterCompose(u, k, outcome) ==
    IF u.mounted
    THEN [u EXCEPT !.runs = WithoutRun(@, k),
                   !.aiImage = IF outcome = "image" THEN <<u.runs[k].args>> ELSE @,
                   !.isProcessing = FALSE,
                   !.notice = IF outcome = "image" THEN GeneratedNotice
                              ELSE FailedNotice,
                   !.last = Event("settle", 0, <<>>)]
    ELSE [u EXCEPT !.runs = WithoutRun(@, k),
                   !.last = Event("settle", 0, <<>>)]

\* composeTryOnImage settles: it returns an image or it rejects.
ComposeSettles ==
    \E k \in DOMAIN ui.runs, outcome \in {"image", "error"} :
        /\ ui.runs[k].stage = "composing"
        /\ UIStep(AfterCompose(ui, k, outcome))

\* composeTryOnImage reaches the unhandled decode error of the model image
\* (ModelDecodeFails): the await of the run never returns.
ComposeNeverSettles ==
    \E k \in DOMAIN ui.runs :
        /\ ui.runs[k].stage = "composing"
        /\ UIStep([ui EXCEPT !.runs[k].stage = "unsettled",
                             !.last = Event("decode_error", 0, <<>>)])

\* The component unmounts: the cleanup of the last effect runs.
Unmount ==
    /\ ui.mounted
    /\ UIStep([ui EXCEPT !.mounted = FALSE,
                         !.revoked = @ \cup EffectCleanup(ui.garments),
                         !.last = Event("unmount", 0, <<>>)])

RunNext == CallCompose \/ ComposeSettles \/ ComposeNeverSettles

UINext ==
    \/ handleGarmentTypeSelection
    \/ handleFileSelect
    \/ handleGarmentToggle
    \/ handleGarmentRemove
    \/ handleAIProcess
    \/ CallCompose
    \/ ComposeSettles
    \/ ComposeNeverSettles
    \/ Unmount

SpecUI == UIInit /\ [][UINext]_vars

\* The same component when every started run goes on: its timer fires, and
\* the composeTryOnImage call it makes gets as far as it can. Nothing is
\* assumed of the user.
SpecUILive == UIInit /\ [][UINext]_vars /\ WF_vars(RunNext)

\* ==================================================================== claims
\* Helpers of the claims' formulas.
AttemptsOf(log, attempt) == {k \in DOMAIN log : log[k].attempt = attempt}

FailureOutcomes == {"threw", "noimage", "encfail"}

\* The source garments of the loads that succeeded, in load order.
LoadedGarments ==
    LET good == SelectSeq(loads, LAMBDA l : l.ok)
    IN  [k \in 1..Len(good) |-> good[k].idx]

DrawnImages == [k \in 1..Len(draws) |-> draws[k].img]

FallbackEntered == canvasesCreated > 0

AdapterRunning ==
    pc \in {"ai_first", "ai_first_wait", "ai_retry", "ai_retry_wait",
            "ai_text", "ai_text_wait"}

\* C1: whenever the remote generation adapter yields an image, the call has
\* returned it at once: no procedural model was rendered, no canvas created,
\* no garment image loaded and no garment drawn in that call.
C1_ImageReturnedImmediately ==
    /\ aiResult = "image" =>
         /\ pc = "done"
         /\ result = "ai"
         /\ modelImg = <<>>
         /\ figure = <<>>
         /\ canvasesCreated = 0
         /\ loads = <<>>
         /\ garmentImages = <<>>
         /\ draws = <<>>
    /\ result = "ai" => aiResult = "image"

\* C1 witness: the adapter returned an image (from its retry, after the
\* first attempt threw) and the call has returned it.
C1_Witness ==
    /\ aiResult = "image"
    /\ result = "ai"
    /\ Len(aiLog) = 2
    /\ aiLog[2] = [attempt |-> "retry", outcome |-> "image"]

\* C2: no failure of the adapter makes the call fail: while the adapter runs
\* the call is pending whatever its attempts did, an adapter that ends with
\* no result sends the call into the canvas fallback, and the call rejects
\* only from inside the fallback, with one of the fallback's own errors.
C2_AdapterFailuresAbsorbed ==
    /\ AdapterRunning => result = "pending"
    /\ aiResult = "null" =>
         /\ pc \in {"model", "model_decode", "model_unsettled", "load", "draw",
                   "done"}
         /\ result # "ai"
         /\ pc = "done" => FallbackEntered
    /\ result = "error" =>
         /\ FallbackEntered
         /\ error \in {NoGarmentsError, CanvasError}

\* C2 witness: every attempt of the adapter threw, and the call still
\* returned the canvas composition.
C2_Witness ==
    /\ Len(aiLog) = 3
    /\ \A k \in DOMAIN aiLog : aiLog[k].outcome = "threw"
    /\ aiResult = "null"
    /\ result = "canvas"

\* C3 as claimed: on the canvas fallback path the call returns a composed
\* image if and only if at least one garment image loaded, and fails exactly
\* when every garment load failed.
C3_ComposedIffSomeLoad ==
    (pc = "done" /\ result # "ai") =>
        /\ result = "canvas" <=> \E k \in DOMAIN loads : loads[k].ok
        /\ result = "error" <=> \A k \in DOMAIN loads : ~loads[k].ok

\* C3 amended: the same, for the calls that obtain the 2D contexts of the
\* model canvas and of the output canvas (a call that does not rejects with
\* "Canvas not supported" whatever was loaded); the error of a call whose
\* loads all failed is "Failed to load any garment images".
C3_ComposedIffSomeLoadGivenContexts ==
    (pc = "done" /\ result # "ai" /\ error # CanvasError) =>
        /\ result = "canvas" <=> \E k \in DOMAIN loads : loads[k].ok
        /\ result = "error" <=> \A k \in DOMAIN loads : ~loads[k].ok
        /\ result = "error" => error = NoGarmentsError
        /\ Len(loads) = Len(garments)

\* C3 witness: a call returned a composition although a load failed.
C3_Witness ==
    /\ result = "canvas"
    /\ \E k \in DOMAIN loads : ~loads[k].ok
    /\ \E k \in DOMAIN loads : loads[k].ok

\* C4: each garment image drawn is placed with the placement box of the
\* category of the garment it was loaded from.
C4_BoxOfSourceGarment ==
    \A k \in DOMAIN draws :
        draws[k].box = ComposeBox(garments[draws[k].img])

\* C5: the images drawn are, in order, the successfully loaded garments in
\* input order (a prefix of them while the draw loop runs, all of them when
\* the composition is returned); the image of a failed load is never drawn,
\* and every load has settled before the first draw.
C5_DrawnAreLoadedInOrder ==
    /\ Len(draws) <= Len(LoadedGarments)
    /\ DrawnImages = SubSeq(LoadedGarments, 1, Len(draws))
    /\ \A k \in DOMAIN draws : loads[draws[k].img].ok
    /\ \A j, k \in DOMAIN draws : j < k => draws[j].img < draws[k].img
    /\ result = "canvas" => DrawnImages = LoadedGarments
    /\ draws # <<>> => Len(loads) = Len(garments)

\* C5 witness: a composition was returned with two or more garments drawn
\* and a failed load among them.
C5_Witness ==
    /\ result = "canvas"
    /\ Len(draws) >= 2
    /\ \E k \in DOMAIN loads : ~loads[k].ok /\ k < draws[Len(draws)].img

\* C6: with no API credential no request is sent to the external service,
\* and the fallback loads every supplied garment, in input order, with no
\* cap, and draws every image it loaded.
C6_NoKeyNoRequestsNoCap ==
    ~apiKey =>
        /\ requests = <<>>
        /\ inflight = 0
        /\ aiLog = <<>>
        /\ aiResult = "unset"
        /\ \A k \in DOMAIN loads : loads[k].idx = k
        /\ (pc = "draw" \/ result = "canvas" \/ error = NoGarmentsError) =>
               Len(loads) = Len(garments)
        /\ result = "canvas" => Len(draws) = Len(LoadedGarments)

\* C6 witness: with no credential, a list longer than the remote cap was
\* loaded and drawn in full.
C6_Witness ==
    /\ ~apiKey
    /\ Len(garments) > MaxRemoteGarments
    /\ result = "canvas"
    /\ Len(loads) = Len(garments)
    /\ Len(draws) = Len(garments)

\* C7: a call with an empty garment list fails with the no-usable-garments
\* error before any rendering: no model image rendered, no canvas created.
C7_EmptyFailsBeforeRendering ==
    (Len(garments) = 0 /\ pc = "done") =>
        /\ result = "error"
        /\ error = NoGarmentsError
        /\ modelImg = <<>>
        /\ figure = <<>>
        /\ canvasesCreated = 0


\* C8 as claimed: whenever the first attempt yields no usable image (it
\* threw, or its response had no image), exactly one retry carrying only the
\* first 2 garments is made before the adapter reports no result.
C8_RetryAfterAnyFailure ==
    (aiResult = "null" /\ aiLog[1].outcome \in FailureOutcomes) =>
        /\ Cardinality(AttemptsOf(requests, "retry")) = 1
        /\ \A k \in AttemptsOf(requests, "retry") :
               requests[k].garments = Prefix(RetryGarments)

\* C8 amended: when the first attempt throws (its request fails, or a
\* garment file cannot be encoded) and more than 2 garments are given,
\* exactly one retry is attempted before the adapter settles, and its request
\* carries only the first 2 garments; when the first attempt returns a
\* response without an image, or at most 2 garments are given, no retry is
\* made.
C8_RetryOnlyAfterThrowWithManyGarments ==
    /\ (aiResult # "unset" /\ aiLog[1].outcome \in FailureOutcomes) =>
         Cardinality(AttemptsOf(aiLog, "retry")) =
             IF aiLog[1].outcome \in {"threw", "encfail"}
                /\ Len(aiGarments) > RetryGarments
             THEN 1 ELSE 0
    /\ Cardinality(AttemptsOf(requests, "retry")) <= 1
    /\ \A k \in AttemptsOf(requests, "retry") :
         /\ requests[k].garments = Prefix(RetryGarments)
         /\ aiLog[1].outcome \in {"threw", "encfail"}
         /\ Len(aiGarments) > RetryGarments

\* C8 witness: the first attempt threw with more than 2 garments, one retry
\* with the first 2 garments was sent and failed, and the adapter reported
\* no result.
C8_Witness ==
    /\ aiResult = "null"
    /\ aiLog[1].outcome = "threw"
    /\ Len(aiGarments) > RetryGarments
    /\ \E k \in DOMAIN requests :
         /\ requests[k].attempt = "retry"
         /\ requests[k].garments = Prefix(RetryGarments)

\* C9 as claimed: one adapter invocation sends at most two requests to the
\* external service.
C9_AtMostTwoRequests == Len(requests) <= 2

\* C9 amended: one adapter invocation sends at most three requests, one
\* after the other: the initial attempt, at most one retry, and at most one
\* styling-analysis request to the text model, which is the last: once it
\* has settled the adapter gives up and sends nothing more.
C9_AtMostThreeRequests ==
    /\ Len(requests) <= 3
    /\ \A a \in {"first", "retry", "text"} :
         Cardinality(AttemptsOf(requests, a)) <= 1
    /\ \A j, k \in DOMAIN requests :
         j < k => requests[j].attempt # "text"
    /\ \A k \in DOMAIN requests :
         requests[k].model = IF requests[k].attempt = "text"
                             THEN TextModel ELSE ImageModel
    /\ aiResult # "unset" => inflight = 0 /\ ~AdapterRunning

\* C9 witness: three requests were sent in one invocation.
C9_Witness ==
    /\ Len(requests) = 3
    /\ requests[3].attempt = "text"
    /\ aiResult = "null"

\* C10: every request sent to the external service carries at most 5 garment
\* images, a prefix of the input list in input order: the first 5 when more
\* are supplied, the first 2 on the retry.
C10_RequestsCarryCappedPrefix ==
    \A k \in DOMAIN requests :
        LET sent == requests[k].garments IN
        /\ Len(sent) <= MaxRemoteGarments
        /\ Len(sent) <= Len(garments)
        /\ sent = Prefix(Len(sent))
        /\ requests[k].attempt = "retry" => Len(sent) = RetryGarments
        /\ requests[k].attempt # "retry" =>
               Len(sent) = Min(Len(garments), MaxRemoteGarments)

\* C10 witness: more than 5 garments were supplied, and the requests sent
\* carried the first 5 and, on the retry, the first 2.
C10_Witness ==
    /\ Len(garments) > MaxRemoteGarments
    /\ Len(requests) >= 2
    /\ requests[1].garments = Prefix(MaxRemoteGarments)
    /\ requests[2].attempt = "retry"
    /\ requests[2].garments = Prefix(RetryGarments)

\* C11: within one call the requests to the external service are strictly
\* sequential: at most one is in flight, one is in flight exactly while the
\* call awaits it, and an attempt that is about to send finds none in flight.
C11_RequestsSequential ==
    /\ inflight \in {0, 1}
    /\ inflight = 1 <=> pc \in {"ai_first_wait", "ai_retry_wait", "ai_text_wait"}
    /\ pc \in {"ai_first", "ai_retry", "ai_text"} => inflight = 0
    /\ inflight = 1 => Len(aiLog) < 3 /\ requests # <<>>

\* C11 witness: the third request of a call is in flight, the two before it
\* having settled.
C11_Witness ==
    /\ Len(requests) = 3
    /\ inflight = 1
    /\ pc = "ai_text_wait"

\* C18: after every garment draw the output context's shadow is back to
\* none, so no draw starts with a shadow left over from an earlier garment.
C18_ShadowResetAfterDraw ==
    /\ outCtx # <<>> => outCtx[1].shadow = NoShadow
    /\ \A k \in DOMAIN draws : draws[k].before.shadow = NoShadow

\* C18 witness: a garment was drawn with the shadow set, another draw
\* followed it, and the context's shadow is none.
C18_Witness ==
    /\ Len(draws) >= 2
    /\ draws[1].stripped
    /\ draws[1].during.shadow = GarmentShadow
    /\ outCtx[1].shadow = NoShadow

\* C19 as claimed: whenever a 2D context cannot be obtained during a
\* composition (model canvas, output canvas or a garment's offscreen
\* buffer), the call fails with an explicit error and returns no image.
C19_NoContextAlwaysFails ==
    (pc = "done" /\ ~host2D) => result = "error" /\ error = CanvasError

\* C19 amended: when the 2D context of the model canvas or of the output
\* canvas cannot be obtained the call fails with "Canvas not supported" and
\* returns no image, and that error has no other cause; when the context of
\* a garment's offscreen buffer cannot be obtained the call does not fail:
\* the garment image is drawn without background removal, at globalAlpha
\* 0.95 and with no shadow.
C19_NoContextFailsExceptOffscreen ==
    /\ (pc = "done" /\ ~host2D /\ draws = <<>>) =>
           result = "error" /\ error = CanvasError
    /\ error = CanvasError <=> (pc = "done" /\ ~host2D /\ draws = <<>>)
    /\ error = CanvasError => canvas = <<>> /\ result = "error"
    /\ \A k \in DOMAIN draws :
         ~draws[k].stripped =>
             /\ draws[k].during.globalAlpha = 95
             /\ draws[k].during.shadow = NoShadow
    /\ (pc = "done" /\ draws # <<>>) => result = "canvas"

\* C19 witness: the output canvas's context could not be obtained after a
\* garment had loaded, and the call failed.
C19_Witness ==
    /\ error = CanvasError
    /\ garmentImages # <<>>
    /\ modelImg # <<>>

\* C20: when the call returns through the canvas fallback the output canvas
\* has the procedural model's size, 400x600, whatever the gender and the
\* garment list.
C20_OutputIsModelSize ==
    /\ result = "canvas" => canvas = <<ModelWidth, ModelHeight>>
    /\ canvas # <<>> => canvas = <<ModelWidth, ModelHeight>> /\ canvas = modelImg
    /\ \A k \in DOMAIN draws :
         draws[k].rect = TargetRect(draws[k].box, ModelWidth, ModelHeight)

\* C20 witness: a composition for the male model was returned.
C20_Witness ==
    /\ result = "canvas"
    /\ gender = "male"
    /\ Len(draws) >= 2


\* A box within the unit square, with positive width and height and an area
\* of at least 0.02 (fractions in thousandths, the area in millionths).
BoxWellFormed(box) ==
    /\ 0 <= box.x /\ box.x <= 1000
    /\ 0 <= box.y /\ box.y <= 1000
    /\ 0 < box.width /\ box.width <= 1000
    /\ 0 < box.height /\ box.height <= 1000
    /\ box.width * box.height >= 20000

\* The text has no JSON value whose properties can be read: it is not JSON,
\* or it is the JSON null.
TextUnparsable(text) == text.kind \in {"garbage", "null"}

\* C12: for every response text, estimateGarmentPlacement returns a box with
\* x and y in [0,1], width and height in (0,1] and area >= 0.02; when the
\* text is unparsable or the parsed box is invalid, the box returned is the
\* table box of the garment type; and once the text is at hand no error is
\* raised.
C12_EstimateAlwaysValid ==
    /\ placement.stage = "returned" =>
         /\ BoxWellFormed(placement.box)
         /\ (TextUnparsable(placement.text)
             \/ ~BoxWellFormed(ParsedBox(placement.text))) =>
                placement.box = getDefaultBox(placement.garmentType)
         /\ (~TextUnparsable(placement.text)
             /\ BoxWellFormed(ParsedBox(placement.text))) =>
                placement.box = ParsedBox(placement.text)
    /\ placement.stage = "rejected" => placement.text = NoText

\* C12 witness: a fenced JSON object with an out-of-range width and a
\* non-numeric x was clamped to a box that is returned as parsed.
C12_Witness ==
    /\ placement.stage = "returned"
    /\ placement.text.fenced
    /\ placement.text.width = Num(1250)
    /\ placement.text.x = NotANumber
    /\ placement.box # getDefaultBox(placement.garmentType)
    /\ placement.box.width = 1000

\* C12 second witness: a parsed box of too small an area was replaced by
\* the table box.
C12_WitnessFallback ==
    /\ placement.stage = "returned"
    /\ placement.text.kind = "object"
    /\ placement.text.width = Num(141)
    /\ placement.text.height = Num(141)
    /\ placement.box = getDefaultBox(placement.garmentType)

\* The table of the spec, section 4.1, as the claim reads it: six categories
\* and a default for any other string.
SpecBoxAsClaimed(category) ==
    CASE category = "dress" -> Box(225, 80, 550, 820)
      [] category = "top" -> Box(250, 180, 500, 400)
      [] category = "pants" -> Box(250, 350, 500, 450)
      [] category = "shorts" -> Box(250, 350, 500, 250)
      [] category = "footwear" -> Box(350, 780, 300, 180)
      [] category = "accessory" -> Box(400, 100, 200, 200)
      [] OTHER -> Box(250, 200, 500, 500)

\* The same table with "tshirt" given the box of "top".
SpecBoxWithTshirt(category) ==
    IF category = "tshirt" THEN SpecBoxAsClaimed("top")
    ELSE SpecBoxAsClaimed(category)

\* C13 as claimed: for every category string the box of the draw loop and
\* the box of getDefaultBox are the spec's values (any string other than
\* the six categories getting the default box), so the two tables agree.
C13_TablesAreSpecTable ==
    \A k \in DOMAIN placement.lookups :
        /\ placement.lookups[k].default = SpecBoxAsClaimed(placement.garmentType)
        /\ placement.lookups[k].compose = SpecBoxAsClaimed(placement.garmentType)

\* C13 amended: the same, with the string "tshirt" (the category the upload
\* widget uses for tops) getting the box of "top" in both tables.
C13_TablesAreSpecTableWithTshirt ==
    \A k \in DOMAIN placement.lookups :
        /\ placement.lookups[k].default = SpecBoxWithTshirt(placement.garmentType)
        /\ placement.lookups[k].compose = SpecBoxWithTshirt(placement.garmentType)
        /\ placement.lookups[k].default = placement.lookups[k].compose

\* C13 witness: shorts were looked up in both tables.
C13_Witness ==
    /\ placement.garmentType = "shorts"
    /\ placement.lookups # <<>>
    /\ placement.lookups[1].compose = Box(250, 350, 500, 250)

\* C14: for every known category and for an unrecognized one, the table box
\* has its fractions in [0,1], positive width and height and area >= 0.02,
\* and repeated lookups of a category return the same box.
C14_TableBoxesWellFormed ==
    /\ \A k \in DOMAIN placement.lookups :
         /\ BoxWellFormed(placement.lookups[k].default)
         /\ BoxWellFormed(placement.lookups[k].compose)
    /\ \A j, k \in DOMAIN placement.lookups :
         placement.lookups[j] = placement.lookups[k]

\* C14 witness: an unrecognized category was looked up twice.
C14_Witness ==
    /\ placement.garmentType = "hat"
    /\ Len(placement.lookups) >= 2
    /\ placement.lookups[2].default = Box(250, 200, 500, 500)


\* The background test of the spec, section 4.2, in the exact arithmetic of
\* the claim: L = 0.299R + 0.587G + 0.114B, C = max - min, S = C/(max+0.001).
ClaimedBackground(px) ==
    LET L1000 == 299 * px.r + 587 * px.g + 114 * px.b
        mx == Max3(px.r, px.g, px.b)
        C == mx - Min3(px.r, px.g, px.b)
        lowS == 100000 * C < 15 * (1000 * mx + 1)
    IN  \/ L1000 > 230000 /\ C < 25
        \/ L1000 > 210000 /\ C < 20 /\ lowS
        \/ px.r > 245 /\ px.g > 245 /\ px.b > 245

\* round(0.99 * A), halves rounded up.
ClaimedKeptAlpha(a) == (2 * 99 * a + 100) \div 200

\* C15: for every pixel the stripper sets alpha to 0 exactly when the
\* background test holds, gives every other pixel alpha round(0.99*A), and
\* leaves R, G and B unchanged.
C15_StripMatchesRule ==
    pixel.strips >= 1 =>
        /\ pixel.now.r = pixel.prev.r
        /\ pixel.now.g = pixel.prev.g
        /\ pixel.now.b = pixel.prev.b
        /\ ClaimedBackground(pixel.prev) => pixel.now.a = 0
        /\ ~ClaimedBackground(pixel.prev) =>
               pixel.now.a = ClaimedKeptAlpha(pixel.prev.a)

\* C15 witness: a pixel of contrast 25 (one more than the test admits) and
\* luma above 230 was kept, its alpha 255 scaled to 252.
C15_Witness ==
    /\ pixel.strips = 1
    /\ pixel.prev = [r |-> 255, g |-> 230, b |-> 230, a |-> 255]
    /\ pixel.now.a = 252

\* C15 second witness: a light grey pixel below the first luma threshold was
\* cleared by the second test.
C15_WitnessCleared ==
    /\ pixel.strips = 1
    /\ pixel.prev = [r |-> 229, g |-> 211, b |-> 211, a |-> 255]
    /\ pixel.now.a = 0

\* C16: a fully transparent pixel stays fully transparent, whatever its R,
\* G and B and however many times the stripper is applied.
C16_TransparentStaysTransparent ==
    pixel.orig.a = 0 => pixel.now.a = 0

\* C16 witness: a transparent pixel that is not background (saturated red)
\* went through the stripper more than once.
C16_Witness ==
    /\ pixel.orig = [r |-> 255, g |-> 0, b |-> 0, a |-> 0]
    /\ pixel.strips >= 2
    /\ pixel.now.a = 0

\* C17: a fully saturated pixel of mid brightness (minimum channel 0, luma
\* at most 210) is never cleared: its alpha A becomes round(0.99*A) and
\* nothing else changes.
C17_SaturatedColourKept ==
    (/\ pixel.strips >= 1
     /\ Min3(pixel.prev.r, pixel.prev.g, pixel.prev.b) = 0
     /\ Brightness(pixel.prev) <= 210000) =>
        /\ pixel.now = [pixel.prev EXCEPT !.a = ClaimedKeptAlpha(pixel.prev.a)]
        /\ pixel.prev.a > 0 => pixel.now.a > 0

\* C17 witness: an opaque saturated green pixel kept with alpha 252.
C17_Witness ==
    /\ pixel.strips = 1
    /\ pixel.prev = [r |-> 0, g |-> 255, b |-> 0, a |-> 255]
    /\ pixel.now = [r |-> 0, g |-> 255, b |-> 0, a |-> 252]


\* The parts of the figure the claim lets the gender reach, and the others.
GenderParts == {"head", "hair", "shoulders", "torso"}
FixedParts == {"face", "neck", "arms", "hands", "legs", "feet"}

\* C21: in the procedural model renderer the gender changes only the head
\* ellipse, the hair ellipse and colour, and the shoulder and torso polygons:
\* the steps that draw the face features, neck, arms, hands, legs and feet
\* are, parameter for parameter, those of every other gender.
C21_GenderReachesOnlyFourParts ==
    figure # <<>> =>
        /\ {figure[k].part : k \in DOMAIN figure} = GenderParts \cup FixedParts
        /\ \A g \in Genders :
             LET other == ModelFigure(g) IN
             /\ Len(other) = Len(figure)
             /\ \A k \in DOMAIN figure :
                  figure[k].part \in FixedParts => other[k] = figure[k]

\* C21 witness: a male figure was drawn, and its four gender parts differ
\* from those of the female figure.
C21_Witness ==
    /\ figure # <<>>
    /\ gender = "male"
    /\ LET female == ModelFigure("female") IN
       \A k \in DOMAIN figure :
           figure[k].part \in GenderParts => female[k] # figure[k]


\* C30: every composeTryOnImage call eventually settles (returns an image
\* or fails), whatever each remote request, garment load and the model-image
\* decode reports.
C30_EveryCallSettles == <>(pc = "done")

\* The state C30 does not allow for: the model image reported a decoding
\* error, and the call is pending with nothing left to run.
C30_Unsettled == pc = "model_unsettled" /\ result = "pending"


\* The object URLs created for upload number n: the garment's, and the
\* upload widget's preview.
CreatedFor(n) == {<<"blob", "garment", n>>, <<"blob", "preview", n>>}

\* The garment of upload n is in a mounted collection.
InCollection(n) ==
    ui.mounted /\ \E k \in DOMAIN ui.garments : ui.garments[k].id = n

\* C22: every object URL created for a garment upload (the widget's preview
\* URL included) has been released once that garment has been removed or the
\* collection has been torn down.
C22_UrlsReleased ==
    \A n \in 1..ui.uploads : ~InCollection(n) => CreatedFor(n) \subseteq ui.revoked

\* What does hold: the garment's own URL is released by then.
C22_GarmentUrlsReleased ==
    \A n \in 1..ui.uploads :
        ~InCollection(n) => <<"blob", "garment", n>> \in ui.revoked

\* The step just taken was the handler op, and it changed something.
Handled(op) == ui'.last.op = op /\ ui' # ui

\* C23: a garment in the collection is mutated only by toggling its active
\* flag. handleGarmentToggle(id) flips isActive of the garment with that id
\* and leaves every other field, every other garment and the order as they
\* were; upload and remove change no field of a garment that stays.
C23_OnlyActiveFlagMutates ==
    [][LET before == ui.garments
           after == ui'.garments
       IN  /\ Handled("toggle") =>
                /\ Len(after) = Len(before)
                /\ \A k \in DOMAIN before :
                     after[k] = IF before[k].id = ui'.last.id
                                THEN [id |-> before[k].id,
                                      name |-> before[k].name,
                                      type |-> before[k].type,
                                      imageUrl |-> before[k].imageUrl,
                                      file |-> before[k].file,
                                      isActive |-> ~before[k].isActive]
                                ELSE before[k]
           /\ ~Handled("toggle") =>
                \A k \in DOMAIN before, j \in DOMAIN after :
                    before[k].id = after[j].id => after[j] = before[k]
           /\ Handled("file") /\ ui'.last.id # 0 =>
                /\ Len(after) = Len(before) + 1
                /\ \A k \in DOMAIN before : after[k] = before[k]
           /\ Handled("remove") =>
                /\ Len(after) = Len(before) - 1
                /\ \A j \in DOMAIN after :
                     after[j] = before[IF \E k \in 1..j : before[k].id = ui'.last.id
                                       THEN j + 1 ELSE j]]_vars

\* C23 witness: the first of two garments was toggled off; the second, added
\* after it, is still active.
C23_Witness ==
    /\ ui.last = [op |-> "toggle", id |-> 1, file |-> <<>>]
    /\ Len(ui.garments) = 2
    /\ ~ui.garments[1].isActive
    /\ ui.garments[2].isActive

\* An image MIME type, and at most 10 MB.
ClaimedAcceptable(file) ==
    /\ Len(file.mime) >= 6
    /\ <<file.mime[1], file.mime[2], file.mime[3], file.mime[4], file.mime[5],
         file.mime[6]>> = <<"i", "m", "a", "g", "e", "/">>
    /\ file.size <= 10485760

\* C24: the upload widget accepts a file if and only if its MIME type is an
\* image type and its size is at most 10 MB. An accepted file becomes a
\* garment; a rejected one reaches no callback: no garment is created and
\* the widget's selected file and preview URL are unchanged.
C24_AcceptsImagesUpTo10MB ==
    [][Handled("file") =>
        LET file == ui'.last.file[1] IN
        IF ClaimedAcceptable(file)
        THEN /\ Len(ui'.garments) = Len(ui.garments) + 1
             /\ ui'.garments[Len(ui'.garments)].file = file
        ELSE ui' = [ui EXCEPT !.notice = ui'.notice, !.last = ui'.last]]_vars

\* C24 witness: an image of exactly 10 MB is in the collection, and an image
\* one byte larger has just been rejected.
C24_Witness ==
    /\ ui.last.op = "file"
    /\ ui.last.id = 0
    /\ ui.last.file[1].size = MaxFileSize + 1
    /\ startsWith(ui.last.file[1].mime, ImagePrefix)
    /\ ui.notice = TooLargeNotice
    /\ Len(ui.garments) = 1
    /\ ui.garments[1].file.size = MaxFileSize

\* C24 second witness: a file whose type only contains "image/" was rejected.
C24_WitnessNotImage ==
    /\ ui.last.op = "file"
    /\ ui.last.id = 0
    /\ ui.last.file[1].mime[1] = "t"
    /\ ui.notice = NotImageNotice

\* C25: on a mounted collection no garment still in the collection has a
\* revoked image reference: the cleanup effect revokes only at unmount.
C25_LiveGarmentsNotRevoked ==
    ui.mounted => \A k \in DOMAIN ui.garments : ui.garments[k].imageUrl \notin ui.revoked

RECURSIVE ActiveInOrder(_)
\* The active garments of a collection, in collection order, as
\* composeTryOnImage takes them.
ActiveInOrder(gs) ==
    IF gs = <<>> THEN <<>>
    ELSE (IF Head(gs).isActive
          THEN <<[url |-> Head(gs).imageUrl, type |-> Head(gs).type,
                  file |-> Head(gs).file]>>
          ELSE <<>>) \o ActiveInOrder(Tail(gs))

\* C26: whenever a result image is set, it was composed from exactly the
\* currently active garments.
C26_ResultNeverStale ==
    ui.mounted /\ ui.aiImage # <<>> => ui.aiImage[1] = ActiveInOrder(ui.garments)

\* C27: at most one composition is in flight at any time; a run starts only
\* while the processing flag is false, and the flag is true for as long as
\* the run is in flight.
C27_OneCompositionAtATime ==
    /\ [](Len(ui.runs) <= 1)
    /\ [](ui.mounted => (ui.isProcessing <=> ui.runs # <<>>))
    /\ [][Len(ui'.runs) > Len(ui.runs) => ~ui.isProcessing]_vars

\* C27 witness: a second run is in flight, the first having settled.
C27_Witness ==
    /\ ui.generates = 2
    /\ Len(ui.runs) = 1
    /\ ui.runs[1].stage = "composing"
    /\ ui.isProcessing

\* C28: every generate request that enters the processing state eventually
\* leaves it.
C28_ProcessingEventuallyEnds ==
    (ui.mounted /\ ui.isProcessing) ~> (~ui.isProcessing \/ ~ui.mounted)

\* What does hold: the flag is reset unless the call never settles, and
\* a failed call leaves no result image.
C28_ProcessingEndsIfCallSettles ==
    /\ (ui.mounted /\ ui.isProcessing) ~>
           \/ ~ui.isProcessing
           \/ ~ui.mounted
           \/ \E k \in DOMAIN ui.runs : ui.runs[k].stage = "unsettled"
    /\ [](ui.notice = FailedNotice => ui.aiImage = <<>>)

\* C29: composeTryOnImage is called only with the active garments of the
\* collection, in collection order, and never with an empty list; a generate
\* request with no active garment leaves an error notice, starts no run and
\* changes neither the processing flag nor the result image.
C29_ComposeGetsActiveGarments ==
    /\ [](\A k \in DOMAIN ui.runs :
             /\ ui.runs[k].args = ActiveInOrder(ui.runs[k].from)
             /\ ui.runs[k].args # <<>>)
    /\ [][Handled("generate") /\ ActiveInOrder(ui.garments) = <<>> =>
             /\ ui'.notice = NoActiveNotice
             /\ ui' = [ui EXCEPT !.notice = ui'.notice, !.last = ui'.last]]_vars
    /\ [][Handled("generate") /\ ActiveInOrder(ui.garments) # <<>> =>
             /\ Len(ui'.runs) = Len(ui.runs) + 1
             /\ ui'.runs[Len(ui'.runs)].from = ui.garments]_vars

\* C29 witness: composeTryOnImage was called with the second garment alone,
\* the first being inactive.
C29_Witness ==
    /\ Len(ui.runs) = 1
    /\ ui.runs[1].stage = "composing"
    /\ Len(ui.runs[1].from) = 2
    /\ ~ui.runs[1].from[1].isActive
    /\ Len(ui.runs[1].args) = 1
    /\ ui.runs[1].args[1].url = ui.runs[1].from[2].imageUrl

\* C29 second witness: a generate request with no active garment was
\* rejected.
C29_WitnessRejected ==
    /\ ui.last.op = "generate"
    /\ ui.notice = NoActiveNotice
    /\ Len(ui.garments) = 1
    /\ ui.runs = <<>>
    /\ ~ui.isProcessing


====
